---- MODULE Spec2Model ----
(***************************************************************************)
(* directcryptopay/sdk.                                                    *)
(*                                                                         *)
(* Three machines share this module:                                       *)
(*   - the payment modal of src/src/ui/Modal.tsx (specification Spec),     *)
(*     a Preact component whose async handlers are modelled as tasks       *)
(*     that are suspended at every await;                                  *)
(*   - the webhook signature check (specification SpecVerify): the signer  *)
(*     is the test script src/unnamed/part_000, the verifier is            *)
(*     verifyWebhookSignature of the package, whose source is not part of  *)
(*     src/ and is modelled from section 4.4 of the specification;         *)
(*   - the balance aggregator fetchTokenBalances of src/src/core/logic.ts  *)
(*     on its own (specification SpecRank), with longer token lists and    *)
(*     more balances than the modal's runs carry.                          *)
(***************************************************************************)
EXTENDS Integers, Sequences, FiniteSets, TLC

VARIABLES
    \* ---- webhook verification (SpecVerify) ----
    vpc,        \* "start" | "signed" | "ready" | "done" | "off"
    vSecret,    \* the secret the event is signed with
    vBody,      \* the body the event is signed over
    vT,         \* the timestamp the event is signed with (unix seconds)
    vTol,       \* toleranceSec passed to the verifier
    vHeader,    \* the signature header handed to the verifier
    vKey,       \* the secret handed to the verifier
    vRaw,       \* the raw body handed to the verifier
    vTamper,    \* what was changed between signing and verifying
    vResult,    \* outcome of the verifier: "true", "false", "threw", or "none"
    \* ---- the balance aggregator on its own (SpecRank) ----
    rpc,        \* "resolving" | "done" | "off"
    rTokens,    \* the TokenConfig[] handed to fetchTokenBalances
    rResolved,  \* what each token's balance request will answer (-1: it fails)
    rDone,      \* the positions whose balance request has settled
    rOut,       \* the TokenWithBalance[] returned
    \* ---- the modal's component state (useState) ----
    state,          \* PaymentState
    toolData,       \* "null" | "data" (the ToolData the backend served)
    tokens,         \* TokenWithBalance[]
    selectedToken,  \* a token symbol | "null" | "undefined"
    error,          \* the error message | "null"
    txHash,         \* the broadcast hash | "null"
    \* ---- the environment ----
    tool,           \* the ToolData of the backend for this toolId
    walletConnected,\* walletManager.isConnected()
    walletChain,    \* chain of the connected account: "tool" | "other"
    kitOpened,      \* the AppKit dialog has been opened by connect()
    closed,         \* close() has run: the host element is out of the document
    \* ---- suspended handlers and timers ----
    loadPc,         \* loadTool: "start" | "fetch" | "done"
    ivArmed,        \* the live connection interval was set up by a render in
                    \* CONNECT_WALLET: its closure sees state === 'CONNECT_WALLET'
                    \* and a toolData
    ivFired,        \* the live interval has passed its test and called checkBalances
    nConnecting,    \* connectWallet calls awaiting walletManager.connect()
    nSettle,        \* pending one-second settle timeouts of connectWallet
    nSwitch,        \* checkBalances calls awaiting switchNetwork
    nBal,           \* checkBalances calls awaiting fetchTokenBalances
    pays,           \* handlePay calls, each a record with its position
    \* ---- what the caller and the backend have observed ----
    onOpen, onClose, onError, onSuccess,  \* numbers of deliveries of the callbacks
    onTxSubmitted,  \* the hashes delivered to onTxSubmitted, in order
    onStatus,       \* number of deliveries of onStatus
    errorSets,      \* number of setState('ERROR') calls
    toolRequests,   \* number of tool-metadata requests issued
    lastSuccess     \* argument of the last onSuccess delivery

vvars == <<vpc, vSecret, vBody, vT, vTol, vHeader, vKey, vRaw, vTamper, vResult>>

react == <<state, toolData, tokens, selectedToken, error, txHash>>
envv == <<tool, walletConnected, walletChain, kitOpened, closed>>
tasks == <<loadPc, ivArmed, ivFired, nConnecting, nSettle, nSwitch, nBal, pays>>
seen == <<onOpen, onClose, onError, onSuccess, onTxSubmitted, onStatus, errorSets,
          toolRequests, lastSuccess>>
rvars == <<rpc, rTokens, rResolved, rDone, rOut>>
ovars == <<react, envv, tasks, seen>>
vars == <<vvars, rvars, ovars>>

(***************************************************************************)
(* Strings are sequences of one-character strings.                         *)
(***************************************************************************)
MaxSecretLen == 2
MaxBodyLen == 2

DigitChars == <<"0", "1", "2", "3", "4", "5", "6", "7", "8", "9">>
HexChars == <<"0", "1", "2", "3", "4", "5", "6", "7", "8", "9",
              "a", "b", "c", "d", "e", "f">>
SecretAlphabet == {"k", "s"}
BodyAlphabet == {"x", "."}
\* every character a signed payload or a secret can hold, with its byte code
AllChars == DigitChars \o <<".", "x", "y", "k", "s", "w">>

RECURSIVE IndexOf(_, _, _)
IndexOf(c, seq, i) ==
    IF i > Len(seq) THEN 0
    ELSE IF seq[i] = c THEN i ELSE IndexOf(c, seq, i + 1)

\* TextEncoder.encode: the byte of a character
CharCode(c) == IndexOf(c, AllChars, 1)

SeqsUpTo(S, lo, hi) == UNION {[1..n -> S] : n \in lo..hi}

Abs(n) == IF n < 0 THEN -n ELSE n

\* `${timestamp}`: a non-negative integer as decimal text
RECURSIVE ToDecimal(_)
ToDecimal(n) ==
    IF n < 10 THEN <<DigitChars[n + 1]>>
    ELSE ToDecimal(n \div 10) \o <<DigitChars[(n % 10) + 1]>>

\* the clock of the run, and the timestamps events are signed with
Now == 1000
DefaultTolerance == 300
ReplayAge == 600
Timestamps == {Now - ReplayAge, Now - DefaultTolerance - 1, Now - DefaultTolerance,
               Now, Now + DefaultTolerance, Now + DefaultTolerance + 1}
Tolerances == {DefaultTolerance, 0}

\* width of a digest in bytes: fixed, as for SHA-256
DigestLen == 1 + MaxSecretLen + Len(ToDecimal(Now + DefaultTolerance + 1)) + 1 + MaxBodyLen

(***************************************************************************)
(* crypto.subtle.sign('HMAC', key, payload).  An ideal MAC: a fixed-width  *)
(* digest that is collision-free on the bounded domain (the key length,    *)
(* the key bytes and the message bytes, zero-padded to DigestLen).         *)
(***************************************************************************)
HmacSha256(key, msg) ==
    LET raw == <<Len(key)>> \o [i \in 1..Len(key) |-> CharCode(key[i])]
                            \o [i \in 1..Len(msg) |-> CharCode(msg[i])]
    IN [i \in 1..DigestLen |-> IF i <= Len(raw) THEN raw[i] ELSE 0]

RECURSIVE Flatten(_)
Flatten(ss) == IF ss = <<>> THEN <<>> ELSE Head(ss) \o Flatten(Tail(ss))

\* b.toString(16) without the padding: one digit for a byte below 16
ByteHexUnpadded(b) ==
    IF b < 16 THEN <<HexChars[b + 1]>>
    ELSE <<HexChars[(b \div 16) + 1], HexChars[(b % 16) + 1]>>

\* b.toString(16).padStart(2, '0')
ByteHex(b) == <<HexChars[(b \div 16) + 1], HexChars[(b % 16) + 1]>>

\* Array.from(bytes).map(byte -> hex).join('')
SigHex(bytes) == Flatten([i \in 1..Len(bytes) |-> ByteHex(bytes[i])])

\* the test's signer: payload `${timestamp}.${body}`, header `t=${timestamp},v1=${sigHex}`
SignedPayload(t, body) == ToDecimal(t) \o <<".">> \o body

SignatureHeader(secret, body, t) ==
    <<"t", "=">> \o ToDecimal(t) \o <<",", "v", "1", "=">>
        \o SigHex(HmacSha256(secret, SignedPayload(t, body)))

(***************************************************************************)
(* verifyWebhookSignature({rawBody, signatureHeader, secret, toleranceSec}) *)
(* Specification section 4.4, steps 1 to 4.                                *)
(***************************************************************************)
RECURSIVE SplitOn(_, _)
SplitOn(s, sep) ==
    LET i == IndexOf(sep, s, 1)
    IN IF i = 0 THEN <<s>>
       ELSE <<SubSeq(s, 1, i - 1)>> \o SplitOn(SubSeq(s, i + 1, Len(s)), sep)

\* one comma-separated part as a key=value pair (split at its first "=")
KeyValue(part) ==
    LET i == IndexOf("=", part, 1)
    IN IF i = 0 THEN [ok |-> FALSE, key |-> part, value |-> <<>>]
       ELSE [ok |-> TRUE, key |-> SubSeq(part, 1, i - 1),
             value |-> SubSeq(part, i + 1, Len(part))]

\* step 1: the value of the field `key` of the header, if there is one
HeaderField(header, key) ==
    LET parts == SplitOn(header, ",")
        hits == SelectSeq([i \in 1..Len(parts) |-> KeyValue(parts[i])],
                          LAMBDA kv : kv.ok /\ kv.key = key)
    IN IF hits = <<>> THEN [found |-> FALSE, value |-> <<>>]
       ELSE [found |-> TRUE, value |-> hits[1].value]

IsDecimal(s) ==
    /\ Len(s) > 0
    /\ \A i \in 1..Len(s) : IndexOf(s[i], DigitChars, 1) # 0

IsLowerHex(s) ==
    /\ Len(s) > 0
    /\ \A i \in 1..Len(s) : IndexOf(s[i], HexChars, 1) # 0

RECURSIVE ParseDecimal(_)
ParseDecimal(s) ==
    IF s = <<>> THEN 0
    ELSE 10 * ParseDecimal(SubSeq(s, 1, Len(s) - 1))
         + (IndexOf(s[Len(s)], DigitChars, 1) - 1)

\* step 2: hex-encoded lowercase HMAC-SHA256 over "{t}.{rawBody}"
ExpectedSignature(secret, tText, rawBody) ==
    LET digest == HmacSha256(secret, tText \o <<".">> \o rawBody)
    IN Flatten([i \in 1..Len(digest) |->
                   <<HexChars[(digest[i] \div 16) + 1], HexChars[(digest[i] % 16) + 1]>>])

\* step 3: constant-time comparison: a length check, then every position is
\* visited and the differences are accumulated
RECURSIVE DiffCount(_, _, _)
DiffCount(a, b, i) ==
    IF i > Len(a) THEN 0
    ELSE (IF a[i] = b[i] THEN 0 ELSE 1) + DiffCount(a, b, i + 1)

\* a comparison that returns at the first position that differs
EarlyExitScan(a, b) ==
    IF Len(a) # Len(b) THEN [equal |-> FALSE, visited |-> 0]
    ELSE LET diffs == {i \in 1..Len(a) : a[i] # b[i]}
         IN IF diffs = {} THEN [equal |-> TRUE, visited |-> Len(a)]
            ELSE [equal |-> FALSE,
                  visited |-> CHOOSE i \in diffs : \A j \in diffs : i <= j]

\* the comparison with the work it does: the number of positions it visits
ConstantTimeScan(a, b) ==
    IF Len(a) # Len(b) THEN [equal |-> FALSE, visited |-> 0]
    ELSE [equal |-> DiffCount(a, b, 1) = 0, visited |-> Len(a)]

ConstantTimeEqual(a, b) == ConstantTimeScan(a, b).equal

\* a replay window that forgets the absolute value: future timestamps pass
WithinToleranceOneSided(now, t, tol) == now - t <= tol

\* step 4: the replay window |now - t| <= toleranceSec
WithinTolerance(now, t, tol) == Abs(now - t) <= tol

\* a parser that dereferences a field it has not found
MissingFieldThrows(found) == IF found THEN "ok" ELSE "threw"

\* step 1, "missing, empty or non-conforming header => false"
MissingField(found) == IF found THEN "ok" ELSE "false"

VerifyWebhookSignature(rawBody, header, secret, tol, now) ==
    LET tF == HeaderField(header, <<"t">>)
        sF == HeaderField(header, <<"v", "1">>)
    IN IF MissingField(tF.found /\ sF.found) # "ok"
           THEN MissingField(tF.found /\ sF.found)
       ELSE IF ~IsDecimal(tF.value) \/ ~IsLowerHex(sF.value) THEN "false"
       ELSE IF /\ ConstantTimeEqual(ExpectedSignature(secret, tF.value, rawBody), sF.value)
               /\ WithinTolerance(now, ParseDecimal(tF.value), tol)
            THEN "true"
            ELSE "false"

(***************************************************************************)
(* The webhook run: an event is signed, possibly changed on the way, and   *)
(* verified.                                                               *)
(***************************************************************************)
Secrets == SeqsUpTo(SecretAlphabet, 1, MaxSecretLen)
Bodies == SeqsUpTo(BodyAlphabet, 0, MaxBodyLen)

\* what a changed byte may become
ByteChanges == {"x", ".", "k", "s", "y", "w"}
\* what a changed signature character may become
SigChanges == {"0", "f", "A", "z"}

ReplaceAt(s, i, c) == [s EXCEPT ![i] = c]

\* the header without its v1 field, and without its t field
HeaderWithoutV1(header) == SplitOn(header, ",")[1]
HeaderWithoutT(header) == SplitOn(header, ",")[2]

MalformedHeaders(header) ==
    { <<>>,
      <<"i", "n", "v", "a", "l", "i", "d", "_", "f", "o", "r", "m", "a", "t">>,
      HeaderWithoutV1(header),
      HeaderWithoutT(header),
      <<"t", "=", ",", "v", "1", "=">>,
      <<",">>,
      <<"=">>,
      <<"t", "=", "x", ",", "v", "1", "=", "a", "b">>,
      <<"t", "=", "1", "0", "0", "0", ",", "v", "1", "=">> }

InitVerify ==
    /\ vpc = "start"
    /\ vSecret \in Secrets
    /\ vBody \in Bodies
    /\ vT \in Timestamps
    /\ vTol \in Tolerances
    /\ vHeader = <<>>
    /\ vKey = <<>>
    /\ vRaw = <<>>
    /\ vTamper = "none"
    /\ vResult = "none"

VerifyOff ==
    /\ vpc = "off"
    /\ vSecret = <<>>
    /\ vBody = <<>>
    /\ vT = 0
    /\ vTol = 0
    /\ vHeader = <<>>
    /\ vKey = <<>>
    /\ vRaw = <<>>
    /\ vTamper = "none"
    /\ vResult = "none"

\* the sender signs the event
VSign ==
    /\ vpc = "start"
    /\ vpc' = "signed"
    /\ vHeader' = SignatureHeader(vSecret, vBody, vT)
    /\ vKey' = vSecret
    /\ vRaw' = vBody
    /\ UNCHANGED <<vSecret, vBody, vT, vTol, vTamper, vResult>>
    /\ UNCHANGED <<rvars, ovars>>

VDeliver ==
    /\ vpc = "signed"
    /\ vpc' = "ready"
    /\ UNCHANGED <<vSecret, vBody, vT, vTol, vHeader, vKey, vRaw, vTamper, vResult>>
    /\ UNCHANGED <<rvars, ovars>>

VTamperBody ==
    /\ vpc = "signed"
    /\ \E i \in 1..Len(vRaw), c \in ByteChanges :
          /\ c # vRaw[i]
          /\ vRaw' = ReplaceAt(vRaw, i, c)
    /\ vTamper' = "body"
    /\ vpc' = "ready"
    /\ UNCHANGED <<vSecret, vBody, vT, vTol, vHeader, vKey, vResult>>
    /\ UNCHANGED <<rvars, ovars>>

VTamperSecret ==
    /\ vpc = "signed"
    /\ \E i \in 1..Len(vKey), c \in ByteChanges :
          /\ c # vKey[i]
          /\ vKey' = ReplaceAt(vKey, i, c)
    /\ vTamper' = "secret"
    /\ vpc' = "ready"
    /\ UNCHANGED <<vSecret, vBody, vT, vTol, vHeader, vRaw, vResult>>
    /\ UNCHANGED <<rvars, ovars>>

\* the position of the first character of the hex signature in a signed header
SigStart(header) == Len(HeaderWithoutV1(header)) + 5

VTamperSignature ==
    /\ vpc = "signed"
    /\ \E i \in SigStart(vHeader)..Len(vHeader), c \in SigChanges :
          /\ c # vHeader[i]
          /\ vHeader' = ReplaceAt(vHeader, i, c)
    /\ vTamper' = "signature"
    /\ vpc' = "ready"
    /\ UNCHANGED <<vSecret, vBody, vT, vTol, vKey, vRaw, vResult>>
    /\ UNCHANGED <<rvars, ovars>>

\* the hex signature of the header cut to one character, cut by one
\* character, or longer by one character
LengthChanges(header) ==
    { SubSeq(header, 1, SigStart(header)),
      SubSeq(header, 1, Len(header) - 1),
      header \o <<"0">> }

VResizeSignature ==
    /\ vpc = "signed"
    /\ vHeader' \in LengthChanges(vHeader)
    /\ vTamper' = "length"
    /\ vpc' = "ready"
    /\ UNCHANGED <<vSecret, vBody, vT, vTol, vKey, vRaw, vResult>>
    /\ UNCHANGED <<rvars, ovars>>

VMalformedHeader ==
    /\ vpc = "signed"
    /\ vHeader' \in MalformedHeaders(vHeader)
    /\ vTamper' = "malformed"
    /\ vpc' = "ready"
    /\ UNCHANGED <<vSecret, vBody, vT, vTol, vKey, vRaw, vResult>>
    /\ UNCHANGED <<rvars, ovars>>

VVerify ==
    /\ vpc = "ready"
    /\ vResult' = VerifyWebhookSignature(vRaw, vHeader, vKey, vTol, Now)
    /\ vpc' = "done"
    /\ UNCHANGED <<vSecret, vBody, vT, vTol, vHeader, vKey, vRaw, vTamper>>
    /\ UNCHANGED <<rvars, ovars>>

NextV ==
    \/ VSign
    \/ VDeliver
    \/ VTamperBody
    \/ VTamperSecret
    \/ VTamperSignature
    \/ VResizeSignature
    \/ VMalformedHeader
    \/ VVerify

(***************************************************************************)
(* The payment modal: src/src/ui/Modal.tsx.                                *)
(***************************************************************************)
MaxConnect == 1     \* connectWallet calls in flight at once

\* checkBalances is called by loadTool or by the connection interval (once),
\* and by each settle timeout; every handlePay call follows a completed
\* checkBalances.  Neither cap is ever reached before the code's own limits
MaxCheck == MaxConnect + 1
MaxPay == MaxConnect + 1

PaymentState == {"FETCHING_TOOL", "CONNECT_WALLET", "FETCHING_BALANCES", "SELECT_TOKEN",
                 "REVIEW", "PROCESSING", "POLLING", "SUCCESS", "ERROR"}

ETH == [symbol |-> "ETH", isNative |-> TRUE, address |-> "null", decimals |-> 18]
USDC == [symbol |-> "USDC", isNative |-> FALSE, address |-> "0xusdc", decimals |-> 6]

\* the token lists a tool may offer
TokenLists == {<<>>, <<USDC, ETH>>}
Tools == {[chain_id |-> "tool", available_tokens |-> l] : l \in TokenLists}

\* a resolved balance in base units; -1 stands for a resolution that failed
BalanceValues == {-1, 0, 1}

\* an entry that takes the failed request's -1 for a balance
WithBalanceFailedKept(token, resolved) ==
    [symbol |-> token.symbol, isNative |-> token.isNative, address |-> token.address,
     decimals |-> token.decimals, balance |-> resolved, hasBalance |-> resolved # 0]

\* logic.ts, the per-token branch of fetchTokenBalances: a failed resolution is
\* reported as balance '0' without balance
WithBalance(token, resolved) ==
    IF resolved < 0
    THEN [symbol |-> token.symbol, isNative |-> token.isNative, address |-> token.address,
          decimals |-> token.decimals, balance |-> 0, hasBalance |-> FALSE]
    ELSE [symbol |-> token.symbol, isNative |-> token.isNative, address |-> token.address,
          decimals |-> token.decimals, balance |-> resolved, hasBalance |-> resolved > 0]

\* a comparator without the two hasBalance lines: balances only
CompareBalancesOnly(a, b) ==
    IF a.hasBalance /\ b.hasBalance
    THEN (IF b.balance > a.balance THEN 1 ELSE -1)
    ELSE 0

\* logic.ts, the comparator handed to Array.prototype.sort
Compare(a, b) ==
    IF a.hasBalance /\ ~b.hasBalance THEN -1
    ELSE IF ~a.hasBalance /\ b.hasBalance THEN 1
    ELSE IF a.hasBalance /\ b.hasBalance
         THEN (IF b.balance > a.balance THEN 1 ELSE -1)
    ELSE 0

IndexPermutations(n) == {f \in [1..n -> 1..n] : \A i, j \in 1..n : f[i] = f[j] => i = j}

\* Array.prototype.sort with Compare.  The sort is stable, so two elements the
\* comparator calls equal (0) keep their input order; two elements with equal
\* positive balances compare -1 in both directions, the comparator is then not
\* consistent and the engine decides their order.
SortOutcomes(list) ==
    LET n == Len(list)
    IN { [i \in 1..n |-> list[f[i]]] : f \in
           { g \in IndexPermutations(n) :
               \A i, j \in 1..n : i < j =>
                   /\ Compare(list[g[i]], list[g[j]]) <= 0
                   /\ (Compare(list[g[i]], list[g[j]]) = 0 => g[i] < g[j]) } }

\* logic.ts fetchTokenBalances: one entry per token, then the sort
FetchTokenBalances(list, resolved) ==
    SortOutcomes([i \in 1..Len(list) |-> WithBalance(list[i], resolved[i])])

\* a default that takes the last token of the list
DefaultTokenLast(balances) ==
    IF balances # <<>> THEN balances[Len(balances)].symbol ELSE "undefined"

\* Modal.tsx 100: balances.find(t => t.hasBalance) || balances[0]
DefaultToken(balances) ==
    LET withBal == SelectSeq(balances, LAMBDA t : t.hasBalance)
    IN IF withBal # <<>> THEN withBal[1].symbol
       ELSE IF balances # <<>> THEN balances[1].symbol
       ELSE "undefined"

Falsy(v) == v \in {"null", "undefined"}

TokenOf(sym) == IF sym = "ETH" THEN ETH ELSE USDC

\* the messages of the errors the collaborators raise
ToolErrors == {"Failed to fetch payment tool", "Failed to fetch"}
SwitchErrors == {"User rejected the request"}
IntentErrors == {"Failed to create intent"}
SendErrors == {"User rejected the request"}
SubmitErrors == {"Failed to submit payment"}
StatusErrors == {"Failed to get payment status"}

InitModal ==
    /\ state = "FETCHING_TOOL"
    /\ toolData = "null"
    /\ tokens = <<>>
    /\ selectedToken = "null"
    /\ error = "null"
    /\ txHash = "null"
    /\ tool \in Tools
    /\ walletConnected \in BOOLEAN
    /\ walletChain \in {"tool", "other"}
    /\ kitOpened = FALSE
    /\ closed = FALSE
    /\ loadPc = "start"
    /\ ivArmed = FALSE
    /\ ivFired = FALSE
    /\ nConnecting = 0
    /\ nSettle = 0
    /\ nSwitch = 0
    /\ nBal = 0
    /\ pays = <<>>
    /\ onOpen = 0
    /\ onClose = 0
    /\ onError = 0
    /\ onSuccess = 0
    /\ onTxSubmitted = <<>>
    /\ onStatus = 0
    /\ errorSets = 0
    /\ toolRequests = 0
    /\ lastSuccess = [payment_id |-> 0, status |-> "none"]

(***************************************************************************)
(* checkBalances(data) up to its first await: setState, getAccount, and    *)
(* the chain comparison that decides what is awaited first.                *)
(***************************************************************************)
CheckBalancesCall ==
    /\ nSwitch + nBal < MaxCheck
    /\ state' = "FETCHING_BALANCES"
    /\ IF walletChain # tool.chain_id
       THEN nSwitch' = nSwitch + 1 /\ nBal' = nBal
       ELSE nBal' = nBal + 1 /\ nSwitch' = nSwitch

\* the catch block of loadTool, checkBalances and handlePay
CatchWithCallback(msg) ==
    /\ error' = msg
    /\ state' = "ERROR"
    /\ errorSets' = errorSets + 1
    /\ onError' = onError + 1

\* the catch block of poll
CatchInPoll(msg) ==
    /\ error' = msg
    /\ state' = "ERROR"
    /\ errorSets' = errorSets + 1
    /\ onError' = onError

\* useEffect(() => { loadTool(); }, [toolId]) on mount: loadTool up to its await
LoadToolStart ==
    /\ loadPc = "start"
    /\ onOpen' = onOpen + 1
    /\ state' = "FETCHING_TOOL"
    /\ toolRequests' = toolRequests + 1
    /\ loadPc' = "fetch"
    /\ UNCHANGED <<toolData, tokens, selectedToken, error, txHash>>
    /\ UNCHANGED envv
    /\ UNCHANGED <<ivArmed, ivFired, nConnecting, nSettle, nSwitch, nBal, pays>>
    /\ UNCHANGED <<onStatus, onClose, onError, onSuccess, onTxSubmitted, errorSets, lastSuccess>>
    /\ UNCHANGED <<vvars, rvars>>

\* a loadTool that does not ask the wallet: always CONNECT_WALLET
LoadToolOkAsksToConnect ==
    /\ loadPc = "fetch"
    /\ loadPc' = "done"
    /\ toolData' = "data"
    /\ state' = "CONNECT_WALLET"
    /\ UNCHANGED <<tokens, selectedToken, error, txHash>>
    /\ UNCHANGED envv
    /\ UNCHANGED <<ivArmed, ivFired, nConnecting, nSettle, nSwitch, nBal, pays>>
    /\ UNCHANGED seen
    /\ UNCHANGED <<vvars, rvars>>

\* api.fetchTool resolved: setToolData, then checkBalances or CONNECT_WALLET
LoadToolOk ==
    /\ loadPc = "fetch"
    /\ loadPc' = "done"
    /\ toolData' = "data"
    /\ IF walletConnected
       THEN CheckBalancesCall
       ELSE state' = "CONNECT_WALLET" /\ UNCHANGED <<nSwitch, nBal>>
    /\ UNCHANGED <<tokens, selectedToken, error, txHash>>
    /\ UNCHANGED envv
    /\ UNCHANGED <<ivArmed, ivFired, nConnecting, nSettle, pays>>
    /\ UNCHANGED seen
    /\ UNCHANGED <<vvars, rvars>>

\* a catch block of loadTool that forgets the callback
LoadToolFailSilent ==
    /\ loadPc = "fetch"
    /\ loadPc' = "done"
    /\ \E msg \in ToolErrors : CatchInPoll(msg)
    /\ UNCHANGED <<toolData, tokens, selectedToken, txHash>>
    /\ UNCHANGED envv
    /\ UNCHANGED <<ivArmed, ivFired, nConnecting, nSettle, nSwitch, nBal, pays>>
    /\ UNCHANGED <<onStatus, onOpen, onClose, onSuccess, onTxSubmitted, toolRequests, lastSuccess>>
    /\ UNCHANGED <<vvars, rvars>>

\* api.fetchTool rejected
LoadToolFail ==
    /\ loadPc = "fetch"
    /\ loadPc' = "done"
    /\ \E msg \in ToolErrors : CatchWithCallback(msg)
    /\ UNCHANGED <<toolData, tokens, selectedToken, txHash>>
    /\ UNCHANGED envv
    /\ UNCHANGED <<ivArmed, ivFired, nConnecting, nSettle, nSwitch, nBal, pays>>
    /\ UNCHANGED <<onStatus, onOpen, onClose, onSuccess, onTxSubmitted, toolRequests, lastSuccess>>
    /\ UNCHANGED <<vvars, rvars>>

\* the effect of [state, toolData] runs after a render: the old interval is
\* cleared and a new one captures the current state and toolData.  Of what it
\* captures an interval reads only state === 'CONNECT_WALLET' && toolData, and
\* toolData is set in every render of CONNECT_WALLET (loadTool sets both in one
\* batch), so the step is taken when that test changes its value
EffectFlush ==
    /\ ivArmed # (state = "CONNECT_WALLET")
    /\ ivArmed' = (state = "CONNECT_WALLET")
    /\ ivFired' = FALSE
    /\ UNCHANGED react
    /\ UNCHANGED envv
    /\ UNCHANGED <<loadPc, nConnecting, nSettle, nSwitch, nBal, pays>>
    /\ UNCHANGED seen
    /\ UNCHANGED <<vvars, rvars>>

\* an interval whose closure holds the state of the first render: its test
\* fails in CONNECT_WALLET and checkBalances is not called
IntervalTickStale ==
    /\ ivArmed
    /\ ~ivFired
    /\ walletConnected
    /\ ivFired' = TRUE
    /\ UNCHANGED react
    /\ UNCHANGED envv
    /\ UNCHANGED <<loadPc, ivArmed, nConnecting, nSettle, nSwitch, nBal, pays>>
    /\ UNCHANGED seen
    /\ UNCHANGED <<vvars, rvars>>

\* a tick of the connection interval that passes its test.  The call changes
\* the state, so the effect replaces this interval before its next tick, one
\* second later: an interval passes its test at most once
IntervalTick ==
    /\ ivArmed
    /\ ~ivFired
    /\ walletConnected
    /\ CheckBalancesCall
    /\ ivFired' = TRUE
    /\ UNCHANGED <<toolData, tokens, selectedToken, error, txHash>>
    /\ UNCHANGED envv
    /\ UNCHANGED <<loadPc, ivArmed, nConnecting, nSettle, pays>>
    /\ UNCHANGED seen
    /\ UNCHANGED <<vvars, rvars>>

\* the Connect Wallet button: connectWallet up to its await
ConnectClick ==
    /\ state = "CONNECT_WALLET"
    /\ ~closed
    /\ nConnecting + nSettle < MaxConnect
    /\ nConnecting' = nConnecting + 1
    /\ UNCHANGED react
    /\ UNCHANGED envv
    /\ UNCHANGED <<loadPc, ivArmed, ivFired, nSettle, nSwitch, nBal, pays>>
    /\ UNCHANGED seen
    /\ UNCHANGED <<vvars, rvars>>

\* walletManager.connect() resolved (the dialog is open): the timeout is set
ConnectResolved ==
    /\ nConnecting > 0
    /\ nConnecting' = nConnecting - 1
    /\ nSettle' = nSettle + 1
    /\ kitOpened' = TRUE
    /\ UNCHANGED react
    /\ UNCHANGED <<tool, walletConnected, walletChain, closed>>
    /\ UNCHANGED <<loadPc, ivArmed, ivFired, nSwitch, nBal, pays>>
    /\ UNCHANGED seen
    /\ UNCHANGED <<vvars, rvars>>

\* connectWallet variant whose catch reports the rejection
ConnectRejectedReports ==
    /\ nConnecting > 0
    /\ nConnecting' = nConnecting - 1
    /\ \E msg \in ToolErrors : CatchWithCallback(msg)
    /\ UNCHANGED <<toolData, tokens, selectedToken, txHash>>
    /\ UNCHANGED envv
    /\ UNCHANGED <<loadPc, ivArmed, ivFired, nSettle, nSwitch, nBal, pays>>
    /\ UNCHANGED <<onStatus, onOpen, onClose, onSuccess, onTxSubmitted, toolRequests, lastSuccess>>
    /\ UNCHANGED <<vvars, rvars>>

\* walletManager.connect() rejected: the empty catch
ConnectRejected ==
    /\ nConnecting > 0
    /\ nConnecting' = nConnecting - 1
    /\ UNCHANGED react
    /\ UNCHANGED envv
    /\ UNCHANGED <<loadPc, ivArmed, ivFired, nSettle, nSwitch, nBal, pays>>
    /\ UNCHANGED seen
    /\ UNCHANGED <<vvars, rvars>>

\* the settle timeout fires.  toolData is the one of the render the button
\* was clicked in, which is never null in CONNECT_WALLET
SettleTimeout ==
    /\ nSettle > 0
    /\ nSettle' = nSettle - 1
    /\ IF walletConnected
       THEN CheckBalancesCall
       ELSE UNCHANGED <<state, nSwitch, nBal>>
    /\ UNCHANGED <<toolData, tokens, selectedToken, error, txHash>>
    /\ UNCHANGED envv
    /\ UNCHANGED <<loadPc, ivArmed, ivFired, nConnecting, pays>>
    /\ UNCHANGED seen
    /\ UNCHANGED <<vvars, rvars>>

\* the user completes the connection in the wallet's own dialog
WalletConnects ==
    /\ kitOpened
    /\ ~walletConnected
    /\ walletConnected' = TRUE
    /\ walletChain' \in {"tool", "other"}
    /\ UNCHANGED react
    /\ UNCHANGED <<tool, kitOpened, closed>>
    /\ UNCHANGED tasks
    /\ UNCHANGED seen
    /\ UNCHANGED <<vvars, rvars>>

\* switchNetwork resolved: the wallet is on the tool's chain, balances are read
SwitchOk ==
    /\ nSwitch > 0
    /\ nSwitch' = nSwitch - 1
    /\ nBal' = nBal + 1
    /\ walletChain' = tool.chain_id
    /\ UNCHANGED react
    /\ UNCHANGED <<tool, walletConnected, kitOpened, closed>>
    /\ UNCHANGED <<loadPc, ivArmed, ivFired, nConnecting, nSettle, pays>>
    /\ UNCHANGED seen
    /\ UNCHANGED <<vvars, rvars>>

\* a rejected switch that is passed over: the balances are read all the same
SwitchFailContinues ==
    /\ nSwitch > 0
    /\ nSwitch' = nSwitch - 1
    /\ nBal' = nBal + 1
    /\ UNCHANGED react
    /\ UNCHANGED envv
    /\ UNCHANGED <<loadPc, ivArmed, ivFired, nConnecting, nSettle, pays>>
    /\ UNCHANGED seen
    /\ UNCHANGED <<vvars, rvars>>

\* switchNetwork rejected
SwitchFail ==
    /\ nSwitch > 0
    /\ nSwitch' = nSwitch - 1
    /\ \E msg \in SwitchErrors : CatchWithCallback(msg)
    /\ UNCHANGED <<toolData, tokens, selectedToken, txHash>>
    /\ UNCHANGED envv
    /\ UNCHANGED <<loadPc, ivArmed, ivFired, nConnecting, nSettle, nBal, pays>>
    /\ UNCHANGED <<onStatus, onOpen, onClose, onSuccess, onTxSubmitted, toolRequests, lastSuccess>>
    /\ UNCHANGED <<vvars, rvars>>

\* fetchTokenBalances resolved: setTokens, setSelectedToken, SELECT_TOKEN
BalancesOk ==
    /\ nBal > 0
    /\ nBal' = nBal - 1
    /\ \E resolved \in [1..Len(tool.available_tokens) -> BalanceValues] :
         \E balances \in FetchTokenBalances(tool.available_tokens, resolved) :
            /\ tokens' = balances
            /\ selectedToken' = DefaultToken(balances)
    /\ state' = "SELECT_TOKEN"
    /\ UNCHANGED <<toolData, error, txHash>>
    /\ UNCHANGED envv
    /\ UNCHANGED <<loadPc, ivArmed, ivFired, nConnecting, nSettle, nSwitch, pays>>
    /\ UNCHANGED seen
    /\ UNCHANGED <<vvars, rvars>>

\* a token row is clicked
SelectToken ==
    /\ state \in {"SELECT_TOKEN", "REVIEW"}
    /\ ~closed
    /\ \E i \in 1..Len(tokens) : selectedToken' = tokens[i].symbol
    /\ UNCHANGED <<state, toolData, tokens, error, txHash>>
    /\ UNCHANGED envv
    /\ UNCHANGED tasks
    /\ UNCHANGED seen
    /\ UNCHANGED <<vvars, rvars>>

(***************************************************************************)
(* handlePay.  A call is a record: pc is the await it is suspended at      *)
(* ("intent", "send", "submit"), "poll" once poll() runs, "done" or        *)
(* "failed" when it has ended; reqs and timers are the status requests in  *)
(* flight and the pending re-poll timeouts of the call; last is the answer *)
(* to its latest status request; log is the list of the steps it has       *)
(* started.                                                                *)
(***************************************************************************)
\* the hash the wallet returns for the broadcast of call i
HashOf(i) == "0xhash" \o ToString(i)

\* the address the payment goes to, and the address the backend names for the
\* native currency
Merchant == "0xmerchant"
NativeAddress == "0x0000"

\* the amount in token units the backend quotes for a token, as it sends it
QuotedAmount(sym) == IF sym = "ETH" THEN <<"0", ".", "5">> ELSE <<"1">>

\* api.createIntent(toolId, symbol): the BackendIntentResponse for the token
Intents(sym) ==
    { [amount |-> QuotedAmount(sym),
       tokenAddress |-> (IF sym = "ETH" THEN NativeAddress ELSE USDC.address),
       merchantAddress |-> Merchant] }

NoIntent == [amount |-> <<>>, tokenAddress |-> "null", merchantAddress |-> "null"]

DigitValue(c) == IndexOf(c, DigitChars, 1) - 1

RECURSIVE StripZeros(_)
StripZeros(ds) == IF Len(ds) > 1 /\ ds[1] = 0 THEN StripZeros(Tail(ds)) ELSE ds

RECURSIVE DropTrailingZeros(_)
DropTrailingZeros(cs) ==
    IF cs # <<>> /\ cs[Len(cs)] = "0" THEN DropTrailingZeros(SubSeq(cs, 1, Len(cs) - 1))
    ELSE cs

\* BigInt(string of decimal digits): the number, as the list of its digits
BigIntOf(cs) == StripZeros([k \in 1..Len(cs) |-> DigitValue(cs[k])])

\* bigint.toString(): the decimal digits as characters
BigToString(ds) == [k \in 1..Len(ds) |-> DigitChars[ds[k] + 1]]

\* viem parseUnits(value, decimals) for a value whose fraction is no longer
\* than decimals: split at the point, drop the fraction's trailing zeros, pad
\* it to decimals digits, and read integer and fraction as one number
ParseUnits(value, decimals) ==
    LET dot == IF \E k \in 1..Len(value) : value[k] = "."
               THEN CHOOSE k \in 1..Len(value) : value[k] = "."
               ELSE Len(value) + 1
        integer == SubSeq(value, 1, dot - 1)
        fraction == DropTrailingZeros(IF dot > Len(value) THEN <<"0">>
                                      ELSE SubSeq(value, dot + 1, Len(value)))
        padded == fraction \o [k \in 1..(decimals - Len(fraction)) |-> "0"]
    IN BigIntOf(integer \o padded)

\* encodeFunctionData({abi: erc20Abi, functionName: 'transfer', args})
EncodeTransfer(to, amount) == <<"transfer", to, amount>>

NoTx == [to |-> "null", value |-> <<>>, data |-> <<>>, chainId |-> "null"]

\* a builder without the token branch: every payment is a native transfer
BuildTxNativeOnly(token, intent, chainId) ==
    [to |-> intent.merchantAddress, value |-> ParseUnits(intent.amount, token.decimals),
     data |-> <<>>, chainId |-> chainId]

\* handlePay 122-144: the transaction handed to walletManager.sendTransaction;
\* a field the code leaves out is empty
BuildTx(token, intent, chainId) ==
    LET wei == ParseUnits(intent.amount, token.decimals)
    IN IF token.isNative
       THEN [to |-> intent.merchantAddress, value |-> wei, data |-> <<>>,
             chainId |-> chainId]
       ELSE [to |-> intent.tokenAddress, value |-> <<>>,
             data |-> EncodeTransfer(intent.merchantAddress, wei), chainId |-> chainId]

NoRequest == [tx_hash |-> "null", chain_id |-> "null", amount_wei |-> <<>>,
              token_address |-> "null", recipient |-> "null"]

\* a request that carries the quoted amount in token units, unconverted
SubmitRequestQuoted(hash, token, intent, chainId) ==
    [tx_hash |-> hash, chain_id |-> chainId, amount_wei |-> intent.amount,
     token_address |-> intent.tokenAddress, recipient |-> intent.merchantAddress]

\* handlePay 151-158: the SubmitPaymentRequest
SubmitRequest(hash, token, intent, chainId) ==
    [tx_hash |-> hash, chain_id |-> chainId,
     amount_wei |-> BigToString(ParseUnits(intent.amount, token.decimals)),
     token_address |-> intent.tokenAddress, recipient |-> intent.merchantAddress]

SetPay(i, pc, step) ==
    pays' = [pays EXCEPT ![i].pc = pc,
                         ![i].log = IF step = "" THEN @ ELSE Append(@, step)]

\* the Pay now button: handlePay up to its first await
PayClick ==
    /\ state \in {"SELECT_TOKEN", "REVIEW"}
    /\ ~closed
    /\ toolData # "null"
    /\ ~Falsy(selectedToken)
    /\ Len(pays) < MaxPay
    /\ state' = "PROCESSING"
    /\ pays' = Append(pays, [pc |-> "intent", token |-> selectedToken, hash |-> "null",
                             reqs |-> 0, timers |-> 0, last |-> "none",
                             log |-> <<"intent">>, intent |-> NoIntent, tx |-> NoTx,
                             req |-> NoRequest])
    /\ UNCHANGED <<toolData, tokens, selectedToken, error, txHash>>
    /\ UNCHANGED envv
    /\ UNCHANGED <<loadPc, ivArmed, ivFired, nConnecting, nSettle, nSwitch, nBal>>
    /\ UNCHANGED seen
    /\ UNCHANGED <<vvars, rvars>>

\* api.createIntent resolved: the amount is converted and the transaction is
\* handed to the wallet
PayIntentOk(i) ==
    /\ pays[i].pc = "intent"
    /\ \E intent \in Intents(pays[i].token) :
          pays' = [pays EXCEPT ![i].pc = "send", ![i].log = Append(@, "broadcast"),
                               ![i].intent = intent,
                               ![i].tx = BuildTx(TokenOf(pays[i].token), intent,
                                                 tool.chain_id)]
    /\ UNCHANGED react
    /\ UNCHANGED envv
    /\ UNCHANGED <<loadPc, ivArmed, ivFired, nConnecting, nSettle, nSwitch, nBal>>
    /\ UNCHANGED seen
    /\ UNCHANGED <<vvars, rvars>>

\* a rejected await inside the try of handlePay: the catch block
PayStepFail(i, pc, msgs) ==
    /\ pays[i].pc = pc
    /\ SetPay(i, "failed", "fail")
    /\ \E msg \in msgs : CatchWithCallback(msg)
    /\ UNCHANGED <<toolData, tokens, selectedToken, txHash>>
    /\ UNCHANGED envv
    /\ UNCHANGED <<loadPc, ivArmed, ivFired, nConnecting, nSettle, nSwitch, nBal>>
    /\ UNCHANGED <<onStatus, onOpen, onClose, onSuccess, onTxSubmitted, toolRequests, lastSuccess>>
    /\ UNCHANGED <<vvars, rvars>>

PayIntentFail(i) == PayStepFail(i, "intent", IntentErrors)

\* a broadcast whose hash is kept but not handed to the caller
PaySendOkSilent(i) ==
    /\ pays[i].pc = "send"
    /\ pays' = [pays EXCEPT ![i].pc = "submit", ![i].hash = HashOf(i),
                            ![i].log = Append(@, "submit"),
                            ![i].req = SubmitRequest(HashOf(i), TokenOf(pays[i].token),
                                                     pays[i].intent, tool.chain_id)]
    /\ txHash' = HashOf(i)
    /\ state' = "POLLING"
    /\ UNCHANGED <<toolData, tokens, selectedToken, error>>
    /\ UNCHANGED envv
    /\ UNCHANGED <<loadPc, ivArmed, ivFired, nConnecting, nSettle, nSwitch, nBal>>
    /\ UNCHANGED seen
    /\ UNCHANGED <<vvars, rvars>>

\* walletManager.sendTransaction resolved: setTxHash, onTxSubmitted,
\* setState('POLLING'), and the payment is submitted
PaySendOk(i) ==
    /\ pays[i].pc = "send"
    /\ pays' = [pays EXCEPT ![i].pc = "submit", ![i].hash = HashOf(i),
                            ![i].log = Append(@, "submit"),
                            ![i].req = SubmitRequest(HashOf(i), TokenOf(pays[i].token),
                                                     pays[i].intent, tool.chain_id)]
    /\ txHash' = HashOf(i)
    /\ onTxSubmitted' = Append(onTxSubmitted, HashOf(i))
    /\ state' = "POLLING"
    /\ UNCHANGED <<toolData, tokens, selectedToken, error>>
    /\ UNCHANGED envv
    /\ UNCHANGED <<loadPc, ivArmed, ivFired, nConnecting, nSettle, nSwitch, nBal>>
    /\ UNCHANGED <<onStatus, onOpen, onClose, onError, onSuccess, errorSets, toolRequests, lastSuccess>>
    /\ UNCHANGED <<vvars, rvars>>

\* a rejected broadcast that does not abort: the payment is submitted anyway
PaySendFailIgnored(i) ==
    /\ pays[i].pc = "send"
    /\ pays' = [pays EXCEPT ![i].pc = "submit",
                            ![i].log = Append(Append(@, "fail"), "submit")]
    /\ state' = "POLLING"
    /\ UNCHANGED <<toolData, tokens, selectedToken, error, txHash>>
    /\ UNCHANGED envv
    /\ UNCHANGED <<loadPc, ivArmed, ivFired, nConnecting, nSettle, nSwitch, nBal>>
    /\ UNCHANGED seen
    /\ UNCHANGED <<vvars, rvars>>

PaySendFail(i) == PayStepFail(i, "send", SendErrors)

\* api.submitPayment resolved: poll() is called and asks for the status
PaySubmitOk(i) ==
    /\ pays[i].pc = "submit"
    /\ pays' = [pays EXCEPT ![i].pc = "poll", ![i].reqs = @ + 1]
    /\ UNCHANGED react
    /\ UNCHANGED envv
    /\ UNCHANGED <<loadPc, ivArmed, ivFired, nConnecting, nSettle, nSwitch, nBal>>
    /\ UNCHANGED seen
    /\ UNCHANGED <<vvars, rvars>>

PaySubmitFail(i) == PayStepFail(i, "submit", SubmitErrors)

\* the status record the backend answers with
StatusRecord(i, status) == [payment_id |-> i, status |-> status]

\* poll: status 'confirmed'
PollConfirmed(i) ==
    /\ pays[i].reqs > 0
    /\ pays' = [pays EXCEPT ![i].pc = "done", ![i].reqs = @ - 1,
                            ![i].last = "confirmed"]
    /\ state' = "SUCCESS"
    /\ onSuccess' = onSuccess + 1
    /\ lastSuccess' = StatusRecord(i, "confirmed")
    /\ UNCHANGED <<toolData, tokens, selectedToken, error, txHash>>
    /\ UNCHANGED envv
    /\ UNCHANGED <<loadPc, ivArmed, ivFired, nConnecting, nSettle, nSwitch, nBal>>
    /\ UNCHANGED <<onStatus, onOpen, onClose, onError, onTxSubmitted, errorSets, toolRequests>>
    /\ UNCHANGED <<vvars, rvars>>

\* poll: a rejected status request, or the throw for status 'failed'
PollCatch(i, answer, msgs) ==
    /\ pays[i].reqs > 0
    /\ pays' = [pays EXCEPT ![i].pc = "failed", ![i].reqs = @ - 1, ![i].last = answer]
    /\ \E msg \in msgs : CatchInPoll(msg)
    /\ UNCHANGED <<toolData, tokens, selectedToken, txHash>>
    /\ UNCHANGED envv
    /\ UNCHANGED <<loadPc, ivArmed, ivFired, nConnecting, nSettle, nSwitch, nBal>>
    /\ UNCHANGED <<onStatus, onOpen, onClose, onSuccess, onTxSubmitted, toolRequests, lastSuccess>>
    /\ UNCHANGED <<vvars, rvars>>

\* poll: status 'failed' handled like 'pending' (the branch is missing)
PollFailedRepolls(i) ==
    /\ pays[i].reqs > 0
    /\ pays' = [pays EXCEPT ![i].reqs = @ - 1, ![i].timers = @ + 1, ![i].last = "failed"]
    /\ UNCHANGED react
    /\ UNCHANGED envv
    /\ UNCHANGED <<loadPc, ivArmed, ivFired, nConnecting, nSettle, nSwitch, nBal>>
    /\ UNCHANGED seen
    /\ UNCHANGED <<vvars, rvars>>

PollFailed(i) == PollCatch(i, "failed", {"Payment failed verification"})

PollRequestFail(i) == PollCatch(i, "error", StatusErrors)

\* poll: status 'pending': setTimeout(poll, 2000)
PollPending(i) ==
    /\ pays[i].reqs > 0
    /\ pays' = [pays EXCEPT ![i].reqs = @ - 1, ![i].timers = @ + 1,
                            ![i].last = "pending"]
    /\ UNCHANGED react
    /\ UNCHANGED envv
    /\ UNCHANGED <<loadPc, ivArmed, ivFired, nConnecting, nSettle, nSwitch, nBal>>
    /\ UNCHANGED seen
    /\ UNCHANGED <<vvars, rvars>>

\* the re-poll timeout fires: poll() asks for the status again
PollTimer(i) ==
    /\ pays[i].timers > 0
    /\ pays' = [pays EXCEPT ![i].timers = @ - 1, ![i].reqs = @ + 1]
    /\ UNCHANGED react
    /\ UNCHANGED envv
    /\ UNCHANGED <<loadPc, ivArmed, ivFired, nConnecting, nSettle, nSwitch, nBal>>
    /\ UNCHANGED seen
    /\ UNCHANGED <<vvars, rvars>>

\* the states whose rendering has the close button
CloseOffered == {"CONNECT_WALLET", "SELECT_TOKEN", "REVIEW", "SUCCESS", "ERROR"}

\* close(): onClose(), document.body.removeChild(root).  The component is not
\* unmounted: no effect cleanup runs, no timer is cleared
Close ==
    /\ state \in CloseOffered
    /\ ~closed
    /\ closed' = TRUE
    /\ onClose' = onClose + 1
    /\ UNCHANGED react
    /\ UNCHANGED <<tool, walletConnected, walletChain, kitOpened>>
    /\ UNCHANGED tasks
    /\ UNCHANGED <<onStatus, onOpen, onError, onSuccess, onTxSubmitted, errorSets, toolRequests,
                   lastSuccess>>
    /\ UNCHANGED <<vvars, rvars>>

\* the Retry button: onClick={() => setState('FETCHING_TOOL')}
Retry ==
    /\ state = "ERROR"
    /\ ~closed
    /\ state' = "FETCHING_TOOL"
    /\ UNCHANGED <<toolData, tokens, selectedToken, error, txHash>>
    /\ UNCHANGED envv
    /\ UNCHANGED tasks
    /\ UNCHANGED seen
    /\ UNCHANGED <<vvars, rvars>>

(***************************************************************************)
(* fetchTokenBalances on its own: the balance requests of the tokens are   *)
(* issued together (Promise.all over tokens.map) and settle in any order;  *)
(* when all have settled the entries are sorted and returned.              *)
(***************************************************************************)
MaxTokens == 3

RankSymbols == {"A", "B", "C", "D"}
RankToken(sym) == [symbol |-> sym, isNative |-> FALSE, address |-> "0x" \o sym,
                   decimals |-> 18]

\* the token lists handed to the aggregator: no token twice
RankLists ==
    UNION { { [i \in 1..n |-> RankToken(f[i])] :
                f \in { g \in [1..n -> RankSymbols] :
                          \A i, j \in 1..n : g[i] = g[j] => i = j } } : n \in 0..MaxTokens }

\* a resolved balance in base units; -1 stands for a request that failed
RankBalances == {-1, 0, 100, 200}

InitRank ==
    /\ rpc = "resolving"
    /\ rTokens \in RankLists
    /\ rResolved \in [1..Len(rTokens) -> RankBalances]
    /\ rDone = {}
    /\ rOut = <<>>

RankOff ==
    /\ rpc = "off"
    /\ rTokens = <<>>
    /\ rResolved = <<>>
    /\ rDone = {}
    /\ rOut = <<>>

\* the balance request of the token at position i settles: its try block
\* returns the entry, or its catch block returns the entry without balance
RSettle(i) ==
    /\ rpc = "resolving"
    /\ i \notin rDone
    /\ rDone' = rDone \cup {i}
    /\ UNCHANGED <<rpc, rTokens, rResolved, rOut>>
    /\ UNCHANGED <<vvars, ovars>>

\* Promise.all has resolved: balances.sort(...) is returned
RReturn ==
    /\ rpc = "resolving"
    /\ rDone = 1..Len(rTokens)
    /\ rOut' \in FetchTokenBalances(rTokens, rResolved)
    /\ rpc' = "done"
    /\ UNCHANGED <<rTokens, rResolved, rDone>>
    /\ UNCHANGED <<vvars, ovars>>

NextRank ==
    \/ \E i \in 1..Len(rTokens) : RSettle(i)
    \/ RReturn

Next ==
    \/ LoadToolStart
    \/ LoadToolOk
    \/ LoadToolFail
    \/ EffectFlush
    \/ IntervalTick
    \/ ConnectClick
    \/ ConnectResolved
    \/ ConnectRejected
    \/ SettleTimeout
    \/ WalletConnects
    \/ SwitchOk
    \/ SwitchFail
    \/ BalancesOk
    \/ SelectToken
    \/ PayClick
    \/ \E i \in 1..Len(pays) : PayIntentOk(i)
    \/ \E i \in 1..Len(pays) : PayIntentFail(i)
    \/ \E i \in 1..Len(pays) : PaySendOk(i)
    \/ \E i \in 1..Len(pays) : PaySendFail(i)
    \/ \E i \in 1..Len(pays) : PaySubmitOk(i)
    \/ \E i \in 1..Len(pays) : PaySubmitFail(i)
    \/ \E i \in 1..Len(pays) : PollConfirmed(i)
    \/ \E i \in 1..Len(pays) : PollFailed(i)
    \/ \E i \in 1..Len(pays) : PollRequestFail(i)
    \/ \E i \in 1..Len(pays) : PollPending(i)
    \/ \E i \in 1..Len(pays) : PollTimer(i)
    \/ Close
    \/ Retry

Init == VerifyOff /\ RankOff /\ InitModal
Spec == Init /\ [][Next]_vars

\* the modal before it is mounted, for the runs of the webhook check
ModalOff ==
    /\ InitModal
    /\ tool = [chain_id |-> "tool", available_tokens |-> <<>>]
    /\ ~walletConnected
    /\ walletChain = "tool"

InitV == InitVerify /\ RankOff /\ ModalOff
SpecVerify == InitV /\ [][NextV]_vars

InitR == InitRank /\ VerifyOff /\ ModalOff
SpecRank == InitR /\ [][NextRank]_vars

(***************************************************************************)
(* The run in which the backend answers 'pending' to every status request. *)
(* A request that was issued is answered and a timeout that was set fires. *)
(***************************************************************************)
NextPending ==
    \/ LoadToolStart
    \/ LoadToolOk
    \/ LoadToolFail
    \/ EffectFlush
    \/ IntervalTick
    \/ ConnectClick
    \/ ConnectResolved
    \/ ConnectRejected
    \/ SettleTimeout
    \/ WalletConnects
    \/ SwitchOk
    \/ SwitchFail
    \/ BalancesOk
    \/ SelectToken
    \/ PayClick
    \/ \E i \in 1..Len(pays) : PayIntentOk(i)
    \/ \E i \in 1..Len(pays) : PayIntentFail(i)
    \/ \E i \in 1..Len(pays) : PaySendOk(i)
    \/ \E i \in 1..Len(pays) : PaySendFail(i)
    \/ \E i \in 1..Len(pays) : PaySubmitOk(i)
    \/ \E i \in 1..Len(pays) : PaySubmitFail(i)
    \/ \E i \in 1..Len(pays) : PollPending(i)
    \/ \E i \in 1..Len(pays) : PollTimer(i)
    \/ Close
    \/ Retry

SpecPending ==
    /\ Init
    /\ [][NextPending]_vars
    /\ WF_vars(\E i \in 1..Len(pays) : PollPending(i))
    /\ WF_vars(\E i \in 1..Len(pays) : PollTimer(i))

(***************************************************************************)
(* The run up to the token selection, in which the timers do their work:   *)
(* an effect whose dependencies changed is flushed after the render, and   *)
(* an interval that is set keeps ticking.  Nothing is assumed of the user. *)
(***************************************************************************)
NextConnect ==
    \/ LoadToolStart
    \/ LoadToolOk
    \/ LoadToolFail
    \/ EffectFlush
    \/ IntervalTick
    \/ ConnectClick
    \/ ConnectResolved
    \/ ConnectRejected
    \/ SettleTimeout
    \/ WalletConnects
    \/ SwitchOk
    \/ SwitchFail
    \/ BalancesOk
    \/ SelectToken
    \/ Close
    \/ Retry

SpecConnect ==
    /\ Init
    /\ [][NextConnect]_vars
    /\ WF_vars(EffectFlush)
    /\ WF_vars(IntervalTick)

(***************************************************************************)
(* Webhook verification: C1 to C3, under SpecVerify.                       *)
(***************************************************************************)
InWindow == Abs(Now - vT) <= vTol

\* the hex signature carried by a header the signer built
SignatureOf(header) == SubSeq(header, SigStart(header), Len(header))

\* C1: an event signed by the sender and delivered unchanged within the
\* tolerance window verifies; with one byte of the body, of the verifying
\* secret or of the hex signature changed, it does not.
C1_ValidVerifiesTamperedDoesNot ==
    vpc = "done" =>
        /\ (vTamper = "none" /\ InWindow) => vResult = "true"
        /\ vTamper \in {"body", "secret", "signature"} => vResult = "false"

C1_Witness ==
    /\ vpc = "done"
    /\ vTamper = "none"
    /\ InWindow
    /\ vResult = "true"
    /\ Len(vBody) > 0

\* C2: a timestamp outside the tolerance window is rejected whatever the
\* signature, and an accepted event has both a timestamp inside the window and
\* the signature of the sender's HMAC over the received body.
C2_ReplayWindowEnforced ==
    vpc = "done" =>
        /\ ~InWindow => vResult = "false"
        /\ vResult = "true" =>
              /\ InWindow
              /\ SignatureOf(vHeader) = SigHex(HmacSha256(vKey, SignedPayload(vT, vRaw)))

C2_Witness ==
    /\ vpc = "done"
    /\ vTamper = "none"
    /\ Now - vT = ReplayAge
    /\ vTol = DefaultTolerance
    /\ vResult = "false"

\* C3: for an empty header, a header without its t or its v1 field, or any
\* other non-conforming header, the verifier returns false and does not throw.
C3_MalformedHeaderIsFalse ==
    (vpc = "done" /\ vTamper = "malformed") => vResult = "false"

C3_Witness ==
    /\ vpc = "done"
    /\ vTamper = "malformed"
    /\ vHeader = <<>>
    /\ vResult = "false"

(***************************************************************************)
(* The payment modal: C4 to C10.                                           *)
(***************************************************************************)
\* the step lists a handlePay call may show: intent, broadcast, submit in this
\* order, each started after the one before it, nothing after a failure
StepOrders ==
    { <<"intent">>, <<"intent", "fail">>,
      <<"intent", "broadcast">>, <<"intent", "broadcast", "fail">>,
      <<"intent", "broadcast", "submit">>, <<"intent", "broadcast", "submit", "fail">> }

C4_Step ==
    \A i \in 1..Len(pays') :
        /\ pays'[i].log \in StepOrders
        /\ (i <= Len(pays) /\ pays'[i].log # pays[i].log /\ pays'[i].log[Len(pays'[i].log)] = "fail")
              => state' = "ERROR"

\* C4: every handlePay call creates the intent, then broadcasts, then submits,
\* starting a step only when the one before has succeeded; a failing step is
\* the last step of the call and sets the state to ERROR.
C4_StepsInOrder == [][C4_Step]_vars

C4_Witness ==
    \E i \in 1..Len(pays) :
        /\ pays[i].log = <<"intent", "broadcast", "fail">>
        /\ state = "ERROR"

\* C5: every setState('ERROR') comes with exactly one delivery of onError.
C5_EveryErrorHasCallback ==
    [][errorSets' # errorSets => onError' = onError + 1]_vars

\* the step in which the tool-metadata request of loadTool is rejected
ToolFetchFails == loadPc = "fetch" /\ loadPc' = "done" /\ toolData' = "null"

\* C6: when the tool-metadata request fails the modal is in FETCHING_TOOL, the
\* state becomes ERROR with the message of the failure, and onError is
\* delivered once.
C6_ToolFailure ==
    [][ToolFetchFails =>
          /\ state = "FETCHING_TOOL"
          /\ state' = "ERROR"
          /\ error' \in ToolErrors
          /\ onError' = onError + 1
          /\ errorSets' = errorSets + 1]_vars

C6_Witness ==
    /\ loadPc = "done"
    /\ toolData = "null"
    /\ state = "ERROR"
    /\ error \in ToolErrors
    /\ onError = 1

C7_Answer(i) ==
    LET answer == pays'[i].last
    IN /\ answer = "confirmed" =>
             /\ state' = "SUCCESS"
             /\ onSuccess' = onSuccess + 1
             /\ lastSuccess' = StatusRecord(i, "confirmed")
       /\ answer = "failed" =>
             /\ state' = "ERROR"
             /\ error' = "Payment failed verification"
             /\ pays'[i].timers = pays[i].timers
       /\ answer = "pending" =>
             /\ UNCHANGED react
             /\ UNCHANGED seen
             /\ pays'[i].timers = pays[i].timers + 1
             /\ pays'[i].reqs = pays[i].reqs - 1

\* C7: a 'confirmed' answer sets SUCCESS and delivers onSuccess with the status
\* record; a 'failed' answer sets ERROR with 'Payment failed verification' and
\* schedules nothing; a 'pending' answer changes no component state, delivers
\* nothing and sets one re-poll timeout.
C7_PollOutcomes ==
    [][\A i \in 1..Len(pays) : pays'[i].reqs < pays[i].reqs => C7_Answer(i)]_vars

C7_Witness ==
    \E i \in 1..Len(pays) :
        /\ pays[i].last = "pending"
        /\ pays[i].timers = 1
        /\ pays[i].reqs = 0
        /\ state = "POLLING"

\* C8: with every status request answered 'pending', from some point on no
\* status request is in flight and no re-poll is scheduled.
C8_PollingEnds ==
    <>[](\A i \in 1..Len(pays) : pays[i].reqs = 0 /\ pays[i].timers = 0)

\* a timer of the modal acts: the interval or a settle timeout calls
\* checkBalances, or a re-poll timeout asks for the status
TimerActs ==
    \/ ivFired' /\ ~ivFired
    \/ nSettle' < nSettle /\ nSwitch' + nBal' > nSwitch + nBal
    \/ \E i \in 1..Len(pays) : pays'[i].timers < pays[i].timers

\* C9: once close() has run no timer acts and no callback is delivered.
C9_QuietAfterClose ==
    [][closed => /\ ~TimerActs
                 /\ UNCHANGED <<onStatus, onOpen, onClose, onError, onSuccess, onTxSubmitted>>]_vars

\* C10: every entry into FETCHING_TOOL issues a tool-metadata request.
C10_EntryRequestsTool ==
    [][(state # "FETCHING_TOOL" /\ state' = "FETCHING_TOOL")
          => toolRequests' = toolRequests + 1]_vars

(***************************************************************************)
(* The payment modal: C11 to C20.                                          *)
(***************************************************************************)
\* the step in which the wallet rejects the transaction of handlePay call i
\* (the user declines the signature)
SendRejected(i) == i <= Len(pays) /\ pays[i].pc = "send" /\ pays'[i].pc = "failed"

\* C11: when the wallet rejects the transaction the modal does not go to ERROR,
\* the state stays what it was and onError is not delivered.
C11_SendRejectionSwallowed ==
    [][\A i \in 1..Len(pays) :
          SendRejected(i) => /\ state' = state
                             /\ state' # "ERROR"
                             /\ onError' = onError]_vars

\* the step in which the wallet returns the hash of the broadcast of call i
BroadcastOk(i) == i <= Len(pays) /\ pays[i].pc = "send" /\ pays'[i].pc = "submit"

C12_Step ==
    /\ \A i \in 1..Len(pays) :
          BroadcastOk(i) =>
              /\ pays'[i].hash = HashOf(i)
              /\ onTxSubmitted' = Append(onTxSubmitted, pays'[i].hash)
              /\ \A k \in 1..Len(onTxSubmitted) : onTxSubmitted[k] # pays'[i].hash
              /\ pays[i].req = NoRequest
              /\ pays'[i].reqs = 0
              /\ pays'[i].last = "none"
              /\ onSuccess' = onSuccess
    /\ (~ \E i \in 1..Len(pays) : BroadcastOk(i)) => onTxSubmitted' = onTxSubmitted
    /\ \A i \in 1..Len(pays') :
          pays'[i].last = "confirmed" =>
              \E k \in 1..Len(onTxSubmitted') : onTxSubmitted'[k] = pays'[i].hash

\* C12: onTxSubmitted is delivered in the step in which a broadcast succeeds,
\* once, with the hash the wallet returned, before the payment has been
\* submitted and before onSuccess of that payment; no other step delivers it,
\* in particular not a failed broadcast.
C12_TxSubmittedOnce == [][C12_Step]_vars

C12_Witness ==
    /\ Len(pays) >= 1
    /\ pays[1].pc = "submit"
    /\ onTxSubmitted = <<HashOf(1)>>
    /\ onSuccess = 0
    /\ state = "POLLING"

\* the base-unit amount and the recipient a transaction transfers: the value
\* and 'to' of a native transfer, the arguments of an encoded token transfer
TxAmount(tx) == IF tx.data = <<>> THEN tx.value ELSE tx.data[3]
TxRecipient(tx) == IF tx.data = <<>> THEN tx.to ELSE tx.data[2]

\* C13: a submitted payment carries the amount of the transaction in base
\* units, the recipient and the token address of the intent the transaction
\* was built from, the chain id of the tool and the hash of the broadcast.
C13_SubmittedIsBroadcast ==
    \A i \in 1..Len(pays) :
        pays[i].req # NoRequest =>
            /\ pays[i].req.amount_wei = BigToString(TxAmount(pays[i].tx))
            /\ BigIntOf(pays[i].req.amount_wei) = TxAmount(pays[i].tx)
            /\ pays[i].req.recipient = pays[i].intent.merchantAddress
            /\ pays[i].req.recipient = TxRecipient(pays[i].tx)
            /\ pays[i].req.token_address = pays[i].intent.tokenAddress
            /\ (~TokenOf(pays[i].token).isNative => pays[i].req.token_address = pays[i].tx.to)
            /\ pays[i].req.chain_id = tool.chain_id
            /\ pays[i].req.chain_id = pays[i].tx.chainId
            /\ pays[i].req.tx_hash = pays[i].hash
            /\ pays[i].hash = HashOf(i)

C13_Witness ==
    \E i \in 1..Len(pays) :
        /\ pays[i].token = "ETH"
        /\ pays[i].req # NoRequest
        /\ pays[i].req.amount_wei = <<"5">> \o [k \in 1..17 |-> "0"]
        /\ pays[i].pc = "poll"

\* the two transaction shapes for a payment of amount to recipient
NativeShape(tx, recipient, amount) ==
    tx.to = recipient /\ tx.value = amount /\ tx.data = <<>>
TokenShape(tx, contract, recipient, amount) ==
    tx.to = contract /\ tx.data = EncodeTransfer(recipient, amount) /\ tx.value = <<>>

\* C14: the transaction handed to the wallet is a native transfer of the
\* amount to the recipient when the selected token is native, and otherwise a
\* call of the token's contract encoding transfer(recipient, amount) without
\* value; never the one shape for a token of the other kind.
C14_TransactionShape ==
    \A i \in 1..Len(pays) :
        pays[i].tx # NoTx =>
            LET token == TokenOf(pays[i].token)
                amount == ParseUnits(pays[i].intent.amount, token.decimals)
                native == NativeShape(pays[i].tx, pays[i].intent.merchantAddress, amount)
                call == TokenShape(pays[i].tx, token.address,
                                   pays[i].intent.merchantAddress, amount)
            IN /\ token.isNative => native /\ ~call
               /\ ~token.isNative => call /\ ~native
               /\ ~token.isNative => pays[i].tx.to # pays[i].intent.merchantAddress
               /\ token.isNative => pays[i].tx.to # USDC.address

C14_Witness ==
    \E i \in 1..Len(pays) :
        /\ pays[i].token = "USDC"
        /\ pays[i].pc = "send"
        /\ pays[i].tx = [to |-> "0xusdc", value |-> <<>>, chainId |-> "tool",
                         data |-> <<"transfer", "0xmerchant", <<1, 0, 0, 0, 0, 0, 0>> >>]

(***************************************************************************)
(* The balance aggregator: C15 to C17, under SpecRank.                     *)
(***************************************************************************)
SymbolsOf(list) == [i \in 1..Len(list) |-> list[i].symbol]

\* the position of the token with this symbol in the input list
InputPosition(sym) == CHOOSE i \in 1..Len(rTokens) : rTokens[i].symbol = sym

\* C15: in the returned list every token with a balance comes before every
\* token without one, whatever the input order; balances [A:0, B:100, C:0]
\* give [B, A, C].
C15_WithBalanceFirst ==
    rpc = "done" =>
        /\ \A i, j \in 1..Len(rOut) :
              (rOut[i].hasBalance /\ ~rOut[j].hasBalance) => i < j
        /\ (SymbolsOf(rTokens) = <<"A", "B", "C">> /\ rResolved = <<0, 100, 0>>)
              => SymbolsOf(rOut) = <<"B", "A", "C">>

C15_Witness ==
    /\ rpc = "done"
    /\ SymbolsOf(rTokens) = <<"A", "B", "C">>
    /\ rResolved = <<0, 100, 0>>
    /\ SymbolsOf(rOut) = <<"B", "A", "C">>

\* C16: the tokens with a balance are returned in descending order of balance,
\* and two tokens with equal balances, like two tokens without balance, keep
\* the relative order of the input list.
C16_DescendingAndStable ==
    rpc = "done" =>
        \A i, j \in 1..Len(rOut) :
            i < j =>
                /\ (rOut[i].hasBalance /\ rOut[j].hasBalance)
                      => rOut[i].balance >= rOut[j].balance
                /\ (rOut[i].hasBalance = rOut[j].hasBalance
                    /\ rOut[i].balance = rOut[j].balance)
                      => InputPosition(rOut[i].symbol) < InputPosition(rOut[j].symbol)

\* C17: N tokens give N entries, one per token, once all N requests have
\* settled; a token whose request failed has balance zero and no balance flag,
\* a token whose request succeeded has the balance it resolved to, flagged
\* exactly when it is positive.
C17_FailuresDoNotFailTheBatch ==
    rpc = "done" =>
        /\ rDone = 1..Len(rTokens)
        /\ Len(rOut) = Len(rTokens)
        /\ \A i \in 1..Len(rTokens) :
              \E k \in 1..Len(rOut) :
                  /\ rOut[k].symbol = rTokens[i].symbol
                  /\ \A m \in 1..Len(rOut) : rOut[m].symbol = rTokens[i].symbol => m = k
                  /\ rOut[k].address = rTokens[i].address
                  /\ rOut[k].decimals = rTokens[i].decimals
                  /\ rOut[k].isNative = rTokens[i].isNative
                  /\ IF rResolved[i] < 0
                     THEN rOut[k].balance = 0 /\ ~rOut[k].hasBalance
                     ELSE /\ rOut[k].balance = rResolved[i]
                          /\ rOut[k].hasBalance = (rResolved[i] > 0)

C17_Witness ==
    /\ rpc = "done"
    /\ Len(rTokens) = 3
    /\ rResolved = <<-1, 200, -1>>
    /\ Len(rOut) = 3
    /\ rOut[1].balance = 200
    /\ rOut[2].balance = 0

(***************************************************************************)
(* The payment modal: C18 to C20.                                          *)
(***************************************************************************)
\* the edges of the declared graph; a phase that can fail has an edge to ERROR
DeclaredEdges ==
    { <<"FETCHING_TOOL", "CONNECT_WALLET">>, <<"FETCHING_TOOL", "FETCHING_BALANCES">>,
      <<"CONNECT_WALLET", "FETCHING_BALANCES">>, <<"FETCHING_BALANCES", "SELECT_TOKEN">>,
      <<"SELECT_TOKEN", "PROCESSING">>, <<"PROCESSING", "POLLING">>,
      <<"POLLING", "SUCCESS">>, <<"ERROR", "FETCHING_TOOL">> }
    \cup { <<s, "ERROR">> : s \in {"FETCHING_TOOL", "CONNECT_WALLET", "FETCHING_BALANCES",
                                   "SELECT_TOKEN", "PROCESSING", "POLLING"} }

\* C18: every change of the state follows a declared edge; FETCHING_BALANCES is
\* entered from FETCHING_TOOL or CONNECT_WALLET only, REVIEW is never entered.
C18_DeclaredEdgesOnly ==
    [][state' # state => /\ <<state, state'>> \in DeclaredEdges
                         /\ state' # "REVIEW"]_vars

\* C19: in CONNECT_WALLET with the wallet connected, the connection interval
\* brings the modal to FETCHING_BALANCES, whatever the user does or does not.
C19_ConnectionIsNoticed ==
    (state = "CONNECT_WALLET" /\ walletConnected) ~> (state = "FETCHING_BALANCES")

\* the interval has noticed the connection: no connectWallet call is in flight
\* or pending, so the step to FETCHING_BALANCES was its own
C19_Witness ==
    /\ state = "FETCHING_BALANCES"
    /\ ivFired
    /\ kitOpened
    /\ walletConnected

\* C20: every change of the state delivers one onStatus notification.
C20_StatusNotified ==
    [][state' # state => onStatus' = onStatus + 1]_vars

(***************************************************************************)
(* Webhook verification: C21, under SpecVerify.                            *)
(***************************************************************************)
\* the comparison the verifier makes for the event it was handed
SignatureScan ==
    ConstantTimeScan(ExpectedSignature(vKey, HeaderField(vHeader, <<"t">>).value, vRaw),
                     SignatureOf(vHeader))

Processing == {i \in 1..Len(pays) : pays[i].pc \in {"intent", "send", "submit"}}
Polling == {i \in 1..Len(pays) : pays[i].pc = "poll"}

\* the number of phases in flight: the tool fetch, the checkBalances calls,
\* the payments being processed and the payments being polled
InFlight ==
    (IF loadPc = "fetch" THEN 1 ELSE 0) + nSwitch + nBal
        + Cardinality(Processing) + Cardinality(Polling)

\* C22: at most one of tool fetch, balance aggregation, payment processing and
\* status polling is in flight at any time.
C22_OnePhaseAtATime == InFlight <= 1

\* the handlePay calls other than j that have not ended
Outstanding(j) == (Processing \cup Polling) \ {j}

\* C23: while a handlePay call is processing or polling, no further handlePay
\* call starts and no further transaction is broadcast.
C23_OnePaymentAtATime ==
    [][/\ Len(pays') > Len(pays) => Outstanding(0) = {}
       /\ \A j \in 1..Len(pays) : BroadcastOk(j) => Outstanding(j) = {}]_vars

\* the step in which the backend accepts the submitted payment of call i
SubmitAccepted(i) == i <= Len(pays) /\ pays[i].pc = "submit" /\ pays'[i].pc = "poll"

\* C24: POLLING is entered in the step in which the backend accepts the
\* submitted payment, not before: while the submission is in flight the state
\* is PROCESSING.
C24_PollingAfterSubmit ==
    [][(state # "POLLING" /\ state' = "POLLING")
          => \E i \in 1..Len(pays) : SubmitAccepted(i)]_vars

\* a checkBalances call starts; a switchNetwork request is answered
BalancesStart == nSwitch' + nBal' > nSwitch + nBal
SwitchAnswered == nSwitch' < nSwitch

C25_Step ==
    /\ BalancesStart =>
          /\ state' = "FETCHING_BALANCES"
          /\ IF walletChain # tool.chain_id
             THEN nSwitch' = nSwitch + 1 /\ nBal' = nBal
             ELSE nSwitch' = nSwitch /\ nBal' = nBal + 1
    /\ SwitchAnswered =>
          \/ /\ walletChain' = tool.chain_id
             /\ nBal' = nBal + 1
             /\ UNCHANGED <<state, error, onError>>
          \/ /\ nBal' = nBal
             /\ state' = "ERROR"
             /\ error' \in SwitchErrors
             /\ onError' = onError + 1
    /\ nBal' > nBal => walletChain' = tool.chain_id

\* C25: a checkBalances call that finds the account on another chain requests
\* the switch and reads no balance before the switch has completed; a failed
\* switch sets ERROR and reads no balance; on the tool's chain no switch is
\* requested.
C25_SwitchBeforeBalances == [][C25_Step]_vars

C25_Witness ==
    /\ state = "ERROR"
    /\ error \in SwitchErrors
    /\ onError = 1
    /\ nSwitch = 0
    /\ nBal = 0
    /\ tokens = <<>>

\* the step in which the tool-metadata request of loadTool is answered
ToolFetchSucceeds == loadPc = "fetch" /\ loadPc' = "done" /\ toolData' # "null"

\* C26: when the tool-metadata request succeeds the state becomes
\* FETCHING_BALANCES if the wallet is connected and CONNECT_WALLET if not, and
\* from CONNECT_WALLET on the tool metadata is held.
C26_ToolSuccess ==
    [][/\ ToolFetchSucceeds =>
             /\ state = "FETCHING_TOOL"
             /\ state' = IF walletConnected THEN "FETCHING_BALANCES" ELSE "CONNECT_WALLET"
             /\ toolData' = "data"
       /\ state' \in {"CONNECT_WALLET", "FETCHING_BALANCES", "SELECT_TOKEN", "REVIEW",
                      "PROCESSING", "POLLING", "SUCCESS"}
             => toolData' = "data"]_vars

C26_Witness ==
    /\ loadPc = "done"
    /\ state = "FETCHING_BALANCES"
    /\ toolData = "data"
    /\ walletConnected
    /\ ~kitOpened
    /\ nSwitch + nBal = 1

\* the step in which fetchTokenBalances of a checkBalances call resolves
BalancesArrive == nBal' < nBal

C27_Step ==
    /\ BalancesArrive =>
          LET held == {k \in 1..Len(tokens') : tokens'[k].hasBalance}
          IN /\ state' = "SELECT_TOKEN"
             /\ held # {} =>
                   selectedToken' = tokens'[CHOOSE k \in held : \A m \in held : k <= m].symbol
             /\ (held = {} /\ tokens' # <<>>) => selectedToken' = tokens'[1].symbol
             /\ tokens' = <<>> => Falsy(selectedToken')
    /\ (state' = "SELECT_TOKEN" /\ tokens' # <<>>) =>
          \E k \in 1..Len(tokens') : tokens'[k].symbol = selectedToken'
    /\ Len(pays') > Len(pays) => ~Falsy(selectedToken)
    /\ Falsy(selectedToken) => (Len(pays') = Len(pays) \/ UNCHANGED state)

\* C27: when the balances arrive the state becomes SELECT_TOKEN and the first
\* token of the list with a balance is selected, or the first token when none
\* has a balance; in SELECT_TOKEN the selected token is one of a non-empty
\* list; without a selected token Pay now starts no handlePay call.
C27_DefaultSelection == [][C27_Step]_vars

C27_Witness ==
    /\ state = "SELECT_TOKEN"
    /\ Len(tokens) = 2
    /\ tokens[1].symbol = "ETH"
    /\ tokens[1].hasBalance
    /\ ~tokens[2].hasBalance
    /\ selectedToken = "ETH"
    /\ pays = <<>>

\* C28: once the state is SUCCESS it stays SUCCESS, neither onError nor a
\* further onSuccess is delivered, and the hash of the broadcast is held.
C28_SuccessIsTerminal ==
    [][state = "SUCCESS" => /\ state' = "SUCCESS"
                            /\ onError' = onError
                            /\ onSuccess' = onSuccess
                            /\ txHash # "null"]_vars

\* The render branches of Modal: the view returned for a state and the
\* buttons it offers.  A state without a branch reaches `return null`.
Render(s) ==
    CASE s = "FETCHING_TOOL" -> [view |-> "loading", buttons |-> {}]
      [] s = "CONNECT_WALLET" -> [view |-> "connect", buttons |-> {"close", "connect"}]
      [] s \in {"SELECT_TOKEN", "REVIEW"} ->
             [view |-> "tokens", buttons |-> {"close", "select", "pay"}]
      [] s \in {"PROCESSING", "POLLING"} -> [view |-> "processing", buttons |-> {}]
      [] s = "SUCCESS" -> [view |-> "success", buttons |-> {"close"}]
      [] s = "ERROR" -> [view |-> "error", buttons |-> {"close", "retry"}]
      [] OTHER -> [view |-> "null", buttons |-> {}]

\* C29: every reachable state of the open modal has a rendering, and the
\* ERROR rendering offers both retry and close.
C29_DefinedRendering ==
    ~closed => /\ Render(state).view # "null"
               /\ state = "ERROR" => {"retry", "close"} \subseteq Render(state).buttons

\* a connectWallet call ends without a connection: connect() rejects, or
\* the settle timeout fires with the wallet still disconnected
Abandoned ==
    \/ nConnecting' < nConnecting /\ nSettle' = nSettle
    \/ nSettle' < nSettle /\ ~walletConnected

\* C30: when a connect attempt is abandoned in CONNECT_WALLET the state stays
\* CONNECT_WALLET, no error is set or reported, and the connect button is
\* still rendered.
C30_AbandonLeavesConnect ==
    [][(state = "CONNECT_WALLET" /\ Abandoned) =>
           /\ state' = "CONNECT_WALLET"
           /\ error' = error
           /\ onError' = onError
           /\ "connect" \in Render(state').buttons]_vars

\* the wallet dialog was opened and the settle timeout fired with no
\* connection: the modal still asks to connect and no error was reported
C30_Witness ==
    /\ state = "CONNECT_WALLET"
    /\ kitOpened
    /\ ~walletConnected
    /\ nConnecting = 0
    /\ nSettle = 0
    /\ onError = 0
    /\ ~closed

====
